---- MODULE Spec2Model ----
(***************************************************************************)
(* Model of bingo's FitnessPredictorIsland (the coevolutionary scheduler   *)
(* of src/bingo/Base/FitnessPredictorIsland.py).  The main population, the *)
(* predictor island and the predictor fitness function are the state; the  *)
(* phases of execute_generational_step are the actions.                    *)
(***************************************************************************)
EXTENDS Integers, Sequences, FiniteSets, TLC

VARIABLES
  pc,                    \* position of the caller / of execute_generational_step
  args,                  \* the constructor arguments and the data set size
  training_data,         \* fitness_function.training_data (the active subset)
  full_training_data,    \* self._full_training_data
  predictor_size,        \* self._predictor_size
  generational_age,      \* self.generational_age (main island)
  population,            \* self.population (main island)
  eval_count,            \* fitness_function.eval_count
  predictor_age,         \* self._predictor_island.generational_age
  predictor_population,  \* self._predictor_island.population
  point_eval_count,      \* predictor_fitness_function.point_eval_count
  trainers,              \* the trainer list of the predictor fitness function
  predictions,           \* predict_fitness_for_trainer per individual and predictor
  scan_index,            \* individuals _find_best_new_trainer has looked at
  max_variance,          \* local of _find_best_new_trainer
  best_candidate,        \* local of _find_best_new_trainer (population index, from 1)
  predictor_offspring,   \* the offspring of the predictor generation under way
  generator,             \* a ComponentGenerator: its arguments and operators
  command                \* what the last call on the generator gave

vars == <<pc, args, training_data, full_training_data, predictor_size,
          generational_age, population, eval_count, predictor_age,
          predictor_population, point_eval_count, trainers,
          predictions, scan_index, max_variance, best_candidate,
          predictor_offspring, generator, command>>

island_vars == <<args, training_data, full_training_data, predictor_size,
                 generational_age, population, eval_count, predictor_age,
                 predictor_population, point_eval_count, trainers>>

scan_vars == <<predictions, scan_index, max_variance, best_candidate>>

other_vars == <<predictor_offspring, generator, command>>

local_vars == <<scan_vars, other_vars>>

-----------------------------------------------------------------------------
(* Bounds of the exploration *)

MaxAge == 3
MaxPredictorAge == 5
MaxScanPopulation == 3
MaxCrowdPopulation == 2
MaxStackLocation == 3

PopulationSizes == {-1, 0, 1}
PredictorPopulationSizes == {-1, 0, 2}
PredictorUpdateFrequencies == {0, 1, 2, 3}
TrainerUpdateFrequencies == {0, 2}
TrainerPopulationSizes == {-1, 0, 1}
DataSizes == {1, 2}
\* ratios are fractions <<numerator, denominator>>
SizeRatios == {<<0, 2>>, <<1, 2>>, <<2, 2>>, <<3, 2>>}
ComputationRatios == {<<-1, 4>>, <<0, 4>>, <<3, 4>>, <<4, 4>>}
Genomes == {"a", "b"}
FitnessValues == {0, 1}
ScanPredictorCounts == {0, 2}

-----------------------------------------------------------------------------
(* Data *)

\* the data set the fitness function holds before the island is built:
\* row i (0-based) has the label 10 + i
SourceData(n) == [i \in 1..n |-> 10 + (i - 1)]

\* numpy fancy indexing data[values] with 0-based indices
IndexData(data, values) == [k \in 1..Len(values) |-> data[values[k] + 1]]

\* sequences of exactly n elements of S
SeqOfLen(S, n) == [1..n -> S]

-----------------------------------------------------------------------------
(* Constructor arguments *)

\* fraction comparisons (denominators are positive)
FracLt(f, g) == f[1] * g[2] < g[1] * f[2]
FracLe(f, g) == f[1] * g[2] <= g[1] * f[2]

Zero == <<0, 1>>
One == <<1, 1>>

\* the validation with predictor_computation_ratio = 1 let through
ArgumentValidation_RatioInclusive(a) ==
  /\ a.population_size >= 0
  /\ a.predictor_population_size >= 0
  /\ a.predictor_update_frequency > 0
  /\ FracLt(Zero, a.predictor_size_ratio)
  /\ FracLe(a.predictor_size_ratio, One)
  /\ FracLe(Zero, a.predictor_computation_ratio)
  /\ FracLe(a.predictor_computation_ratio, One)
  /\ a.trainer_population_size >= 0
  /\ a.trainer_update_frequency > 0

\* the argument_validation decorator of __init__
ArgumentValidation(a) ==
  /\ a.population_size >= 0
  /\ a.predictor_population_size >= 0
  /\ a.predictor_update_frequency > 0
  /\ FracLt(Zero, a.predictor_size_ratio)
  /\ FracLe(a.predictor_size_ratio, One)
  /\ FracLe(Zero, a.predictor_computation_ratio)
  /\ FracLt(a.predictor_computation_ratio, One)
  /\ a.trainer_population_size >= 0
  /\ a.trainer_update_frequency > 0

\* the product rounded up instead of truncated
PredictorSize_RoundedUp(ratio, full_data_size) ==
  (ratio[1] * full_data_size + ratio[2] - 1) \div ratio[2]

\* int(predictor_size_ratio * full_data_size); the product is not negative
\* once the arguments are validated, so truncation is the floor
PredictorSize(ratio, full_data_size) == (ratio[1] * full_data_size) \div ratio[2]

-----------------------------------------------------------------------------
(* Individuals *)

\* a main-population individual: the cached fitness is the value the fitness
\* function gives its genome on the training data it was evaluated on
Individual(g, data) == [genome |-> g, fit_set |-> TRUE, fitness |-> data]

\* individual.copy(): an object of its own (ref 0) with the fields of indv
CopyOf(indv) == [genome |-> indv.genome, fit_set |-> indv.fit_set,
                 fitness |-> indv.fitness, ref |-> 0]

\* a registered trainer that is the very object self.population[i]
SharedWith(indv, i) == [genome |-> indv.genome, fit_set |-> indv.fit_set,
                        fitness |-> indv.fitness, ref |-> i]

\* the trainer list as it reads once the individuals of pop were changed in
\* place: a trainer that is an object of the population shows its fields
TrainersSeeing(list, pop) ==
  [k \in DOMAIN list |->
     IF list[k].ref = 0 THEN list[k] ELSE SharedWith(pop[list[k].ref], list[k].ref)]

\* the trainer list once self.population was replaced: an object that left
\* the population is no longer reached through it
TrainersAfterReplacement(list, old, new) ==
  [k \in DOMAIN list |->
     IF list[k].ref # 0 /\ new[list[k].ref] # old[list[k].ref]
     THEN [list[k] EXCEPT !.ref = 0]
     ELSE list[k]]

\* MultipleValueChromosomeGenerator over FitnessPredictorIndexGenerator:
\* predictor_size indices, each in [0, full_data_size)
PredictorValues(full_data_size, size) == SeqOfLen(0..(full_data_size - 1), size)

NewPredictors(full_data_size, size) ==
  [values : PredictorValues(full_data_size, size), fitness : {0},
   fit_set : {FALSE}]

EvaluatedPredictors(full_data_size, size) ==
  [values : PredictorValues(full_data_size, size), fitness : FitnessValues,
   fit_set : {TRUE}]

\* _reset_fitness(population)
ResetFitness(pop) == [i \in DOMAIN pop |-> [pop[i] EXCEPT !.fit_set = FALSE]]

\* the individuals evaluate_population() has to evaluate
NumInvalid(pop) == Cardinality({i \in DOMAIN pop : ~pop[i].fit_set})

-----------------------------------------------------------------------------
(* The predictor island: an Island around a DeterministicCrowdingEA *)

\* the outcomes of evaluating one predictor (lower fitness is better)
EvaluatedVersions(p) ==
  IF p.fit_set THEN {p}
  ELSE {[p EXCEPT !.fitness = f, !.fit_set = TRUE] : f \in FitnessValues}

\* evaluate_population() of the predictor island
EvaluatePredictors(pop) ==
  {np \in SeqOfLen(UNION {EvaluatedVersions(pop[i]) : i \in DOMAIN pop}, Len(pop)) :
     \A i \in DOMAIN pop : np[i] \in EvaluatedVersions(pop[i])}

\* the offspring has to be strictly better to replace its parent
CrowdingWinner_Strict(parent, child) ==
  IF child.fitness < parent.fitness THEN child ELSE parent

\* deterministic crowding: the offspring replaces the parent it was derived
\* from when its fitness is at least as good, else the parent survives
CrowdingWinner(parent, child) ==
  IF child.fitness <= parent.fitness THEN child ELSE parent

\* the survivors of one generation: every place is decided between the
\* parent that holds it and the offspring derived from that parent
DeterministicCrowding(parents, offspring) ==
  [i \in DOMAIN parents |-> CrowdingWinner(parents[i], offspring[i])]

\* who can hold the place of a parent, for offspring drawn from a set
CrowdingSurvivors(parent, offspring) ==
  {CrowdingWinner(parent, child) : child \in offspring}

\* the populations one generational step of the predictor island can produce
PredictorGenerationalStep(pop, full_data_size, size) ==
  LET offspring == EvaluatedPredictors(full_data_size, size)
  IN  {np \in SeqOfLen(offspring, Len(pop)) :
         \A i \in DOMAIN pop :
           \E parent \in EvaluatedVersions(pop[i]) :
             np[i] \in CrowdingSurvivors(parent, offspring)}

\* data rows charged to point_eval_count by the evaluation of n predictors
PointsOfEvaluations(n, size, num_trainers) == n * size * num_trainers

\* rows charged by one generational step: the invalid parents and every
\* offspring are evaluated
PointsOfStep(pop, size, num_trainers) ==
  PointsOfEvaluations(NumInvalid(pop) + Len(pop), size, num_trainers)

\* Island.best_individual(): an individual of the lowest fitness
BestIndividuals(pop) ==
  {pop[i] : i \in {j \in DOMAIN pop :
                     \A k \in DOMAIN pop : pop[j].fitness <= pop[k].fitness}}

\* the subset of the first predictor adopted, whatever its fitness
BestSubsets_First(pop, full) == {IndexData(full, pop[1].values)}

\* _update_to_use_best_fitness_predictor(): the data sets it can adopt
BestSubsets(pop, full) == {IndexData(full, best.values) : best \in BestIndividuals(pop)}

\* the captured data set shrunk to the adopted subset
UpdateToUseBestFitnessPredictor_Shrinks(pop, full) ==
  {[training_data |-> subset, full_training_data |-> subset] :
     subset \in BestSubsets(pop, full)}

\* _update_to_use_best_fitness_predictor(): the training data of the fitness
\* function and the captured data set after it
UpdateToUseBestFitnessPredictor(pop, full) ==
  {[training_data |-> subset, full_training_data |-> full] :
     subset \in BestSubsets(pop, full)}

-----------------------------------------------------------------------------
(* New-trainer selection *)

\* a predicted fitness: a number or not-a-number
Pred(v) == [nan |-> FALSE, val |-> v]
PredNaN == [nan |-> TRUE, val |-> 0]

\* a variance: a fraction or not-a-number
Var(f) == [nan |-> FALSE, val |-> f]
VarNaN == [nan |-> TRUE, val |-> Zero]

RECURSIVE SumOf(_)
SumOf(list) ==
  IF Len(list) = 0 THEN 0 ELSE list[1].val + SumOf(Tail(list))

RECURSIVE SumOfSquares(_)
SumOfSquares(list) ==
  IF Len(list) = 0 THEN 0 ELSE list[1].val * list[1].val + SumOfSquares(Tail(list))

\* np.var(list): the population variance, mean(x^2) - mean(x)^2, as a fraction;
\* nan for an empty list and for a list that holds a nan
NpVar(list) ==
  IF Len(list) = 0 \/ \E k \in DOMAIN list : list[k].nan
  THEN VarNaN
  ELSE LET n == Len(list)
       IN  Var(<<n * SumOfSquares(list) - SumOf(list) * SumOf(list), n * n>>)

\* _calculate_predictor_variance_of(individual), given the predicted fitness
\* of the individual under every predictor of the island
CalculatePredictorVarianceOf(predicted_fitness_list) == NpVar(predicted_fitness_list)

\* the comparison written variance >= max_variance
VarianceGreater_OrEqual(variance, maximum) ==
  /\ ~variance.nan
  /\ ~maximum.nan
  /\ FracLe(maximum.val, variance.val)

\* the comparison written not (variance <= max_variance): true for a nan
VarianceGreater_NotLessEqual(variance, maximum) ==
  ~(/\ ~variance.nan
    /\ ~maximum.nan
    /\ FracLe(variance.val, maximum.val))

\* Python's variance > max_variance: false whenever an operand is nan
VarianceGreater(variance, maximum) ==
  /\ ~variance.nan
  /\ ~maximum.nan
  /\ FracLt(maximum.val, variance.val)

\* the body of the for loop of _find_best_new_trainer for individual i
ScanIndividual(state, i, variance) ==
  IF VarianceGreater(variance, state.max_variance)
  THEN [max_variance |-> variance, best_candidate |-> i]
  ELSE state

\* best_candidate = self.population[0]; max_variance = 0
ScanStart == [max_variance |-> Var(Zero), best_candidate |-> 1]

RECURSIVE ScanFrom(_, _, _)
ScanFrom(preds, i, state) ==
  IF i > Len(preds) THEN state
  ELSE ScanFrom(preds, i + 1,
                ScanIndividual(state, i, CalculatePredictorVarianceOf(preds[i])))

\* _find_best_new_trainer(): the index of the chosen individual
FindBestNewTrainer(preds) == ScanFrom(preds, 1, ScanStart).best_candidate

-----------------------------------------------------------------------------
(* The scheduler *)

Arguments ==
  [population_size : PopulationSizes,
   predictor_population_size : PredictorPopulationSizes,
   predictor_update_frequency : PredictorUpdateFrequencies,
   predictor_size_ratio : SizeRatios,
   predictor_computation_ratio : ComputationRatios,
   trainer_population_size : TrainerPopulationSizes,
   trainer_update_frequency : TrainerUpdateFrequencies,
   full_data_size : DataSizes]

\* no generator was built and nothing was asked of one
NoGenerator == [built |-> FALSE]
NoCommand == [call |-> "nothing", raised |-> "none", stack_location |-> 0,
              kind |-> "nothing", node |-> 0, param1 |-> 0, param2 |-> 0]

NoScan ==
  /\ predictor_offspring = <<>>
  /\ generator = NoGenerator
  /\ command = NoCommand
  /\ predictions = <<>>
  /\ scan_index = 0
  /\ max_variance = ScanStart.max_variance
  /\ best_candidate = ScanStart.best_candidate

\* before FitnessPredictorIsland(...) is called: the fitness function holds
\* the whole data set and nothing of the island exists
Init ==
  /\ pc = "new"
  /\ args \in Arguments
  /\ training_data = SourceData(args.full_data_size)
  /\ full_training_data = <<>>
  /\ predictor_size = 0
  /\ generational_age = 0
  /\ population = <<>>
  /\ eval_count = 0
  /\ predictor_age = 0
  /\ predictor_population = <<>>
  /\ point_eval_count = 0
  /\ trainers = <<>>
  /\ NoScan

\* the two refreshes called in the other order
NextPhase_TrainerFirst(phase) ==
  CASE phase = "main" -> "ratio"
    [] phase = "ratio" -> "trainer"
    [] phase = "trainer" -> "predictor"
    [] phase = "predictor" -> "idle"

\* the order of the calls in execute_generational_step
NextPhase(phase) ==
  CASE phase = "main" -> "ratio"
    [] phase = "ratio" -> "predictor"
    [] phase = "predictor" -> "trainer"
    [] phase = "trainer" -> "idle"

\* __init__ with an argument the validation refuses
ConstructRejected ==
  /\ pc = "new"
  /\ ~ArgumentValidation(args)
  /\ pc' = "rejected"
  /\ UNCHANGED <<island_vars, local_vars>>

\* an empty population where an individual is required: no trainer can be
\* sampled from an empty main population and an empty predictor island has
\* no best individual
ConstructionRaises(a) ==
  \/ a.population_size = 0 /\ a.trainer_population_size > 0
  \/ a.predictor_population_size = 0

ConstructFailed ==
  /\ pc = "new"
  /\ ArgumentValidation(args)
  /\ ConstructionRaises(args)
  /\ pc' = "error"
  /\ UNCHANGED <<island_vars, local_vars>>

\* __init__ with valid arguments
Construct ==
  /\ pc = "new"
  /\ ArgumentValidation(args)
  /\ ~ConstructionRaises(args)
  /\ LET full == training_data
         size == PredictorSize(args.predictor_size_ratio, Len(full))
     IN  /\ predictor_size' = size
         /\ \E pop \in SeqOfLen({Individual(g, full) : g \in Genomes},
                                args.population_size) :
              /\ population' = pop
              /\ eval_count' = Len(pop)
              /\ trainers' \in SeqOfLen({CopyOf(pop[i]) : i \in DOMAIN pop},
                                        args.trainer_population_size)
         /\ \E new \in SeqOfLen(NewPredictors(Len(full), size),
                                args.predictor_population_size) :
              /\ predictor_population' \in
                   PredictorGenerationalStep(new, Len(full), size)
              /\ point_eval_count' =
                   PointsOfStep(new, size, args.trainer_population_size)
         /\ predictor_age' = 1
         /\ \E update \in UpdateToUseBestFitnessPredictor(predictor_population',
                                                            full) :
              /\ training_data' = update.training_data
              /\ full_training_data' = update.full_training_data
  /\ generational_age' = 0
  /\ pc' = "idle"
  /\ UNCHANGED <<args, local_vars>>

\* evaluate_population() of the main island on the active training data
EvaluatePopulation(pop, data) ==
  [i \in DOMAIN pop |->
     IF pop[i].fit_set THEN pop[i] ELSE Individual(pop[i].genome, data)]

Range(seq) == {seq[i] : i \in DOMAIN seq}

\* super().execute_generational_step(): the main island advances by one
\* generation; the evolutionary algorithm keeps some individuals and
\* evaluates the new ones on the active training data
ExecuteMainGenerationalStep ==
  /\ pc = "idle"
  /\ generational_age < MaxAge
  /\ generational_age' = generational_age + 1
  /\ \E fresh \in SUBSET (DOMAIN population) :
       /\ population' \in
            {np \in SeqOfLen(Range(population)
                               \cup {Individual(g, training_data) : g \in Genomes},
                             Len(population)) :
               \A i \in DOMAIN population :
                 IF i \in fresh
                 THEN np[i] \in {Individual(g, training_data) : g \in Genomes}
                 ELSE np[i] \in Range(population)}
       /\ eval_count' = eval_count + Cardinality(fresh)
  /\ trainers' = TrainersAfterReplacement(trainers, population, population')
  /\ pc' = NextPhase("main")
  /\ UNCHANGED <<args, training_data, full_training_data, predictor_size,
                 predictor_age, predictor_population, point_eval_count,
                 local_vars>>

\* _get_predictor_computation_ratio(): the fraction
\* predictor_expense / (predictor_expense + island_expense)
GetPredictorComputationRatio(predictor_expense, evals, size) ==
  <<predictor_expense, predictor_expense + evals * size>>

\* the division of _get_predictor_computation_ratio raises ZeroDivisionError
RatioRaises ==
  /\ pc = "ratio"
  /\ GetPredictorComputationRatio(point_eval_count, eval_count, predictor_size)[2] = 0
  /\ pc' = "error"
  /\ UNCHANGED <<island_vars, local_vars>>

\* the loop condition with the comparison reversed
RatioBelowTarget_Reversed(ratio, target) == FracLt(target, ratio)

\* the condition of the while loop
RatioBelowTarget(ratio, target) == FracLt(ratio, target)

\* one iteration of the while loop of _step_predictor_island_to_maintain_ratio
StepPredictorIsland ==
  /\ pc = "ratio"
  /\ predictor_age < MaxPredictorAge
  /\ LET ratio == GetPredictorComputationRatio(point_eval_count, eval_count,
                                               predictor_size)
     IN  /\ ratio[2] # 0
         /\ RatioBelowTarget(ratio, args.predictor_computation_ratio)
  /\ predictor_age' = predictor_age + 1
  /\ predictor_population' \in
       PredictorGenerationalStep(predictor_population, Len(full_training_data),
                                 predictor_size)
  /\ point_eval_count' = point_eval_count
       + PointsOfStep(predictor_population, predictor_size, Len(trainers))
  /\ pc' = "ratio"
  /\ UNCHANGED <<args, training_data, full_training_data, predictor_size,
                 generational_age, population, eval_count, trainers, local_vars>>

\* the fitness function takes the subset of the best predictor whenever
\* the while loop ends
LeaveRatioLoop_AdoptsBest ==
  /\ pc = "ratio"
  /\ LET ratio == GetPredictorComputationRatio(point_eval_count, eval_count,
                                               predictor_size)
     IN  /\ ratio[2] # 0
         /\ ~RatioBelowTarget(ratio, args.predictor_computation_ratio)
  /\ training_data' \in BestSubsets(predictor_population, full_training_data)
  /\ pc' = NextPhase("ratio")
  /\ UNCHANGED <<args, full_training_data, predictor_size, generational_age,
                 population, eval_count, predictor_age, predictor_population,
                 point_eval_count, trainers, local_vars>>

\* the while loop ends
LeaveRatioLoop ==
  /\ pc = "ratio"
  /\ LET ratio == GetPredictorComputationRatio(point_eval_count, eval_count,
                                               predictor_size)
     IN  /\ ratio[2] # 0
         /\ ~RatioBelowTarget(ratio, args.predictor_computation_ratio)
  /\ pc' = NextPhase("ratio")
  /\ UNCHANGED <<island_vars, local_vars>>

\* _step_predictor_island_to_maintain_ratio()
StepPredictorIslandToMaintainRatio ==
  \/ RatioRaises
  \/ StepPredictorIsland
  \/ LeaveRatioLoop

\* the refresh decided on the age before the increment
PredictorUpdateNeeded_PreIncrement(age, a) ==
  (age - 1) % a.predictor_update_frequency = 0

\* if self.generational_age % self._predictor_update_frequency == 0
PredictorUpdateNeeded(age, a) == age % a.predictor_update_frequency = 0

\* self._reset_fitness(self.population); self.evaluate_population(): the
\* population after it and the number of evaluations it took
ReevaluatePopulation(pop, data) ==
  [population |-> EvaluatePopulation(ResetFitness(pop), data),
   evaluated |-> NumInvalid(ResetFitness(pop))]

\* _update_predictor_if_needed()
UpdatePredictorIfNeeded ==
  /\ pc = "predictor"
  /\ IF PredictorUpdateNeeded(generational_age, args)
     THEN /\ \E update \in UpdateToUseBestFitnessPredictor(predictor_population,
                                                             full_training_data) :
               /\ training_data' = update.training_data
               /\ full_training_data' = update.full_training_data
          /\ LET done == ReevaluatePopulation(population, training_data')
             IN  /\ population' = done.population
                 /\ eval_count' = eval_count + done.evaluated
                 /\ trainers' = TrainersSeeing(trainers, done.population)
     ELSE UNCHANGED <<training_data, full_training_data, population, eval_count,
                      trainers>>
  /\ pc' = NextPhase("predictor")
  /\ UNCHANGED <<args, predictor_size, generational_age,
                 predictor_age, predictor_population, point_eval_count,
                 local_vars>>

\* the values predict_fitness_for_trainer returns in the scheduler runs
StepPredictions == {PredNaN, Pred(0), Pred(1)}

\* the predictions are not charged
PointsOfPredictions_Free(num_individuals, num_predictors, size) == 0

\* rows predict_fitness_for_trainer touches for every pair of one individual
\* and one predictor
PointsOfPredictions(num_individuals, num_predictors, size) ==
  num_individuals * num_predictors * size

\* the trainer refresh decided on the predictor update frequency
TrainerUpdateNeeded_PredictorFrequency(age, a) ==
  age % a.predictor_update_frequency = 0

\* if self.generational_age % self._trainer_update_frequency == 0
TrainerUpdateNeeded(age, a) == age % a.trainer_update_frequency = 0

\* the refresh done by a generational step of the predictor island
ReevaluatePredictorIsland_Step(age, pop) ==
  {[age |-> age + 1, population |-> np,
    evaluated |-> NumInvalid(ResetFitness(pop))] :
     np \in EvaluatePredictors(ResetFitness(pop))}

\* self._reset_fitness(self._predictor_island.population);
\* self._predictor_island.evaluate_population(): the islands it can leave
\* and the number of evaluations it took
ReevaluatePredictorIsland(age, pop) ==
  {[age |-> age, population |-> np, evaluated |-> NumInvalid(ResetFitness(pop))] :
     np \in EvaluatePredictors(ResetFitness(pop))}

\* an individual that is registered already is not registered again
AddTrainer_Deduplicating(list, individual) ==
  IF \E k \in DOMAIN list : /\ list[k].genome = individual.genome
                             /\ list[k].fitness = individual.fitness
  THEN list
  ELSE Append(list, individual)

\* add_trainer(individual) of the predictor fitness function
AddTrainer(list, individual) == Append(list, individual)

\* the selected individual registered itself, not a copy of it
AddNewTrainer_NoCopy(list, pop, num_predictors) ==
  {AddTrainer(list, SharedWith(pop[FindBestNewTrainer(preds)],
                               FindBestNewTrainer(preds))) :
     preds \in SeqOfLen(SeqOfLen(StepPredictions, num_predictors), Len(pop))}

\* _add_new_trainer(): the trainer lists it can leave
AddNewTrainer(list, pop, num_predictors) ==
  {AddTrainer(list, CopyOf(pop[FindBestNewTrainer(preds)])) :
     preds \in SeqOfLen(SeqOfLen(StepPredictions, num_predictors), Len(pop))}

\* _update_trainer_if_needed()
UpdateTrainerIfNeeded ==
  /\ pc = "trainer"
  /\ IF TrainerUpdateNeeded(generational_age, args)
     THEN IF Len(population) = 0
          THEN /\ pc' = "error"
               /\ UNCHANGED <<trainers, predictor_age, predictor_population,
                              point_eval_count>>
          ELSE /\ trainers' \in AddNewTrainer(trainers, population,
                                              Len(predictor_population))
               /\ \E island \in ReevaluatePredictorIsland(predictor_age,
                                                          predictor_population) :
                    /\ predictor_age' = island.age
                    /\ predictor_population' = island.population
                    /\ point_eval_count' = point_eval_count
                         + PointsOfPredictions(Len(population),
                                               Len(predictor_population),
                                               predictor_size)
                         + PointsOfEvaluations(island.evaluated, predictor_size,
                                               Len(trainers'))
               /\ pc' = NextPhase("trainer")
     ELSE /\ pc' = NextPhase("trainer")
          /\ UNCHANGED <<trainers, predictor_age, predictor_population,
                         point_eval_count>>
  /\ UNCHANGED <<args, training_data, full_training_data, predictor_size,
                 generational_age, population, eval_count, local_vars>>

Next ==
  \/ ConstructRejected
  \/ ConstructFailed
  \/ Construct
  \/ ExecuteMainGenerationalStep
  \/ StepPredictorIslandToMaintainRatio
  \/ UpdatePredictorIfNeeded
  \/ UpdateTrainerIfNeeded

Spec == Init /\ [][Next]_vars

-----------------------------------------------------------------------------
(* New-trainer selection on its own: _find_best_new_trainer over a main    *)
(* population whose predicted fitnesses are given                          *)

ScanPredictions == {PredNaN, Pred(0), Pred(1), Pred(3)}

\* A -> {1,1,1}, B -> {0,5,10}, C -> {2,2,2}
ExamplePredictions ==
  << <<Pred(1), Pred(1), Pred(1)>>,
     <<Pred(0), Pred(5), Pred(10)>>,
     <<Pred(2), Pred(2), Pred(2)>> >>

\* the signature defaults of __init__
DefaultArguments(size) ==
  [population_size |-> size,
   predictor_population_size |-> 16,
   predictor_update_frequency |-> 50,
   predictor_size_ratio |-> <<1, 10>>,
   predictor_computation_ratio |-> <<1, 10>>,
   trainer_population_size |-> 16,
   trainer_update_frequency |-> 50,
   full_data_size |-> 0]

\* the arguments of an island of n individuals and m predictors on a data
\* set of one row, all of it in every predictor
ScanArguments(n, m) ==
  [DefaultArguments(n) EXCEPT !.predictor_population_size = m,
                              !.predictor_size_ratio = One,
                              !.trainer_population_size = IF n = 0 THEN 0 ELSE 1,
                              !.full_data_size = 1]

InitScan ==
  /\ pc = "select"
  /\ predictions \in
       {ExamplePredictions}
         \cup UNION {SeqOfLen(SeqOfLen(ScanPredictions, m), n) :
                       m \in ScanPredictorCounts, n \in 0..MaxScanPopulation}
  /\ scan_index = 0
  /\ max_variance = ScanStart.max_variance
  /\ best_candidate = ScanStart.best_candidate
  /\ predictor_offspring = <<>>
  /\ generator = NoGenerator
  /\ command = NoCommand
  /\ LET n == Len(predictions)
         m == IF n = 0 THEN 0 ELSE Len(predictions[1])
     IN  /\ args = ScanArguments(n, m)
         /\ training_data = SourceData(1)
         /\ full_training_data = SourceData(1)
         /\ predictor_size = PredictorSize(ScanArguments(n, m).predictor_size_ratio, 1)
         /\ generational_age = 0
         /\ population = [i \in 1..n |-> Individual("a", SourceData(1))]
         /\ eval_count = n
         /\ predictor_age = 1
         /\ predictor_population =
              [k \in 1..m |-> [values |-> <<0>>, fitness |-> 0, fit_set |-> TRUE]]
         /\ point_eval_count = 0
         /\ trainers = [k \in 1..(IF n = 0 THEN 0 ELSE 1) |->
                          CopyOf(Individual("a", SourceData(1)))]

\* best_candidate = self.population[0] (an IndexError on an empty
\* population); max_variance = 0
FindBestStart ==
  /\ pc = "select"
  /\ IF Len(predictions) = 0
     THEN /\ pc' = "error"
          /\ UNCHANGED <<max_variance, best_candidate>>
     ELSE /\ pc' = "scan"
          /\ max_variance' = ScanStart.max_variance
          /\ best_candidate' = ScanStart.best_candidate
  /\ scan_index' = 0
  /\ UNCHANGED <<island_vars, predictions, other_vars>>

\* one pass of the for loop
FindBestScan ==
  /\ pc = "scan"
  /\ scan_index < Len(predictions)
  /\ LET i == scan_index + 1
         state == ScanIndividual(
                    [max_variance |-> max_variance, best_candidate |-> best_candidate],
                    i, CalculatePredictorVarianceOf(predictions[i]))
     IN  /\ max_variance' = state.max_variance
         /\ best_candidate' = state.best_candidate
         /\ scan_index' = i
  /\ point_eval_count' = point_eval_count
       + PointsOfPredictions(1, Len(predictor_population), predictor_size)
  /\ pc' = "scan"
  /\ UNCHANGED <<args, training_data, full_training_data, predictor_size,
                 generational_age, population, eval_count, predictor_age,
                 predictor_population, trainers, predictions, other_vars>>

\* return best_candidate
FindBestReturn ==
  /\ pc = "scan"
  /\ scan_index = Len(predictions)
  /\ pc' = "selected"
  /\ UNCHANGED <<island_vars, local_vars>>

NextScan ==
  \/ FindBestStart
  \/ FindBestScan
  \/ FindBestReturn

SpecScan == InitScan /\ [][NextScan]_vars

-----------------------------------------------------------------------------
(* One generation of the predictor island's evolutionary algorithm on its  *)
(* own: evaluated parents against the evaluated offspring derived from them *)

\* evaluated predictors of one index into a data set of two rows
CrowdPredictors == EvaluatedPredictors(2, 1)

InitCrowd ==
  /\ pc = "crowd"
  /\ \E n \in 0..MaxCrowdPopulation :
       /\ predictor_population \in SeqOfLen(CrowdPredictors, n)
       /\ predictor_offspring \in SeqOfLen(CrowdPredictors, n)
  /\ args = DefaultArguments(0)
  /\ full_training_data = SourceData(2)
  /\ training_data = <<>>
  /\ predictor_size = 1
  /\ generational_age = 0
  /\ population = <<>>
  /\ eval_count = 0
  /\ predictor_age = 1
  /\ point_eval_count = 0
  /\ trainers = <<>>
  /\ predictions = <<>>
  /\ scan_index = 0
  /\ max_variance = ScanStart.max_variance
  /\ best_candidate = ScanStart.best_candidate
  /\ generator = NoGenerator
  /\ command = NoCommand

\* the survivor selection of DeterministicCrowdingEA.generational_step
CrowdingStep ==
  /\ pc = "crowd"
  /\ predictor_population' = DeterministicCrowding(predictor_population, predictor_offspring)
  /\ pc' = "crowded"
  /\ UNCHANGED <<args, training_data, full_training_data, predictor_size,
                 generational_age, population, eval_count, predictor_age,
                 point_eval_count, trainers, scan_vars, predictor_offspring,
                 generator, command>>

NextCrowd == CrowdingStep

SpecCrowd == InitCrowd /\ [][NextCrowd]_vars

-----------------------------------------------------------------------------
(* ComponentGenerator: random commands of an acyclic graph's command stack *)

\* Python values given as arguments: an int, a float (both carried as a
\* fraction), a str or None
IntValue(n) == [kind |-> "int", val |-> <<n, 1>>]
FloatValue(n, d) == [kind |-> "float", val |-> <<n, d>>]
StrValue == [kind |-> "str", val |-> Zero]
NoneValue == [kind |-> "None", val |-> Zero]

\* isinstance(value, int) and isinstance(value, numbers.Number)
IsInt(value) == value.kind = "int"
IsNumber(value) == value.kind \in {"int", "float"}

XDimensions == {IntValue(-1), IntValue(0), IntValue(1), IntValue(2),
                FloatValue(2, 1), StrValue}
NumLoads == {IntValue(0), IntValue(1), IntValue(2), FloatValue(1, 1)}
TerminalProbabilities == {FloatValue(-1, 2), FloatValue(0, 1), FloatValue(1, 2),
                          FloatValue(1, 1), FloatValue(3, 2), NoneValue}
ConstantProbabilities == {NoneValue, FloatValue(0, 1), FloatValue(1, 2),
                          IntValue(1), FloatValue(3, 2), StrValue}

\* operator codes of the operator maps; 0 and 1 are the terminals
Operators == {2, 3}
StackLocations == -1..MaxStackLocation

GeneratorArguments ==
  [input_x_dimension : XDimensions,
   num_initial_load_statements : NumLoads,
   terminal_probability : TerminalProbabilities,
   constant_probability : ConstantProbabilities]

\* _check_valid_x_dimension: the exception it raises, or "none"
CheckValidXDimension(x_dimension) ==
  IF ~IsInt(x_dimension) THEN "TypeError"
  ELSE IF FracLt(x_dimension.val, Zero) THEN "ValueError"
  ELSE "none"

\* _check_valid_num_loads
CheckValidNumLoads(num_loads) ==
  IF ~IsInt(num_loads) THEN "TypeError"
  ELSE IF FracLt(num_loads.val, One) THEN "ValueError"
  ELSE "none"

\* _check_valid_probability
CheckValidProbability(probability) ==
  IF ~IsNumber(probability) THEN "TypeError"
  ELSE IF FracLt(One, probability.val) \/ FracLt(probability.val, Zero)
       THEN "ValueError"
  ELSE "none"

\* _check_valid_init_params: the first check that raises decides
CheckValidInitParams(a) ==
  IF CheckValidXDimension(a.input_x_dimension) # "none"
  THEN CheckValidXDimension(a.input_x_dimension)
  ELSE IF CheckValidNumLoads(a.num_initial_load_statements) # "none"
  THEN CheckValidNumLoads(a.num_initial_load_statements)
  ELSE IF CheckValidProbability(a.terminal_probability) # "none"
  THEN CheckValidProbability(a.terminal_probability)
  ELSE IF a.constant_probability.kind # "None"
  THEN CheckValidProbability(a.constant_probability)
  ELSE "none"

\* 1.0 - probability
OneMinus(f) == <<f[2] - f[1], f[2]>>

\* ProbabilityMassFunction(items, weights) of two items
Pmf2(item1, weight1, item2, weight2) ==
  <<[item |-> item1, weight |-> weight1], [item |-> item2, weight |-> weight2]>>

\* ProbabilityMassFunction.add_item; the weight None stands for one share
AddItem(pmf, item) == Append(pmf, [item |-> item, weight |-> One])

\* ProbabilityMassFunction.draw_sample: the items that can be drawn, none
\* when the draw fails for want of an item of positive weight
DrawSample(pmf) == {pmf[i].item : i \in {j \in DOMAIN pmf : FracLt(Zero, pmf[j].weight)}}

\* np.random.randint(high): the values it can return, none when it raises
\* ValueError (high <= 0)
RandomInt(high) == 0..(high - 1)

\* _make_terminal_pdf
MakeTerminalPdf(x_dimension, constant_probability) ==
  IF constant_probability.kind = "None"
  THEN Pmf2(1, One, 0, <<x_dimension, 1>>)
  ELSE Pmf2(1, constant_probability.val, 0, OneMinus(constant_probability.val))

\* _make_random_command_pmf
MakeRandomCommandPmf(terminal_probability) ==
  Pmf2("_random_terminal_command", terminal_probability.val,
       "_random_operator_command", OneMinus(terminal_probability.val))

\* what a call gave: an exception or an array [node, parameter 1, parameter 2]
Raised(call, stack_location, exception) ==
  [call |-> call, raised |-> exception, stack_location |-> stack_location,
   kind |-> "nothing", node |-> 0, param1 |-> 0, param2 |-> 0]
Returned(call, stack_location, kind, node, param1, param2) ==
  [call |-> call, raised |-> "none", stack_location |-> stack_location,
   kind |-> kind, node |-> node, param1 |-> param1, param2 |-> param2]

\* a parameter that can be the stack location itself
RandomOperatorParameter_UpToLocation(stack_location) == RandomInt(stack_location + 1)

\* random_operator_parameter(stack_location)
RandomOperatorParameter(stack_location) == RandomInt(stack_location)

\* random_terminal_parameter(terminal_number)
RandomTerminalParameter(g, terminal_number) ==
  IF terminal_number = 0 THEN RandomInt(g.input_x_dimension) ELSE {-1}

\* _random_terminal_command
RandomTerminalCommand(g, call, stack_location) ==
  IF DrawSample(g.terminal_pmf) = {}
  THEN {Raised(call, stack_location, "ValueError")}
  ELSE UNION {IF RandomTerminalParameter(g, terminal) = {}
              THEN {Raised(call, stack_location, "ValueError")}
              ELSE {Returned(call, stack_location, "terminal", terminal, p1, p2) :
                      p1 \in RandomTerminalParameter(g, terminal),
                      p2 \in RandomTerminalParameter(g, terminal)} :
                terminal \in DrawSample(g.terminal_pmf)}

\* _random_operator_command
RandomOperatorCommand(g, call, stack_location) ==
  IF DrawSample(g.operator_pmf) = {} \/ RandomOperatorParameter(stack_location) = {}
  THEN {Raised(call, stack_location, "ValueError")}
  ELSE {Returned(call, stack_location, "operator", operator, p1, p2) :
          operator \in DrawSample(g.operator_pmf),
          p1 \in RandomOperatorParameter(stack_location),
          p2 \in RandomOperatorParameter(stack_location)}

\* random_command(stack_location)
RandomCommandOutcomes(g, stack_location) ==
  IF stack_location < g.num_initial_load_statements
  THEN RandomTerminalCommand(g, "random_command", stack_location)
  ELSE UNION {IF function = "_random_terminal_command"
              THEN RandomTerminalCommand(g, "random_command", stack_location)
              ELSE RandomOperatorCommand(g, "random_command", stack_location) :
                function \in DrawSample(g.random_command_function_pmf)}

\* no island is involved
NoIsland ==
  /\ args = DefaultArguments(0)
  /\ training_data = <<>>
  /\ full_training_data = <<>>
  /\ predictor_size = 0
  /\ generational_age = 0
  /\ population = <<>>
  /\ eval_count = 0
  /\ predictor_age = 0
  /\ predictor_population = <<>>
  /\ point_eval_count = 0
  /\ trainers = <<>>
  /\ predictions = <<>>
  /\ scan_index = 0
  /\ max_variance = ScanStart.max_variance
  /\ best_candidate = ScanStart.best_candidate
  /\ predictor_offspring = <<>>

\* before ComponentGenerator(...) is called
InitCommand ==
  /\ pc = "gen_new"
  /\ \E a \in GeneratorArguments : generator = [built |-> FALSE, arguments |-> a]
  /\ command = NoCommand
  /\ NoIsland

\* __init__ with an argument _check_valid_init_params refuses
GeneratorRejected ==
  /\ pc = "gen_new"
  /\ CheckValidInitParams(generator.arguments) # "none"
  /\ command' = Raised("__init__", 0, CheckValidInitParams(generator.arguments))
  /\ pc' = "gen_rejected"
  /\ UNCHANGED <<island_vars, scan_vars, predictor_offspring, generator>>

\* __init__ with valid arguments
GeneratorConstruct ==
  /\ pc = "gen_new"
  /\ CheckValidInitParams(generator.arguments) = "none"
  /\ generator' =
       [built |-> TRUE,
        arguments |-> generator.arguments,
        input_x_dimension |-> generator.arguments.input_x_dimension.val[1],
        num_initial_load_statements |->
          generator.arguments.num_initial_load_statements.val[1],
        terminal_pmf |->
          MakeTerminalPdf(generator.arguments.input_x_dimension.val[1],
                          generator.arguments.constant_probability),
        operator_pmf |-> <<>>,
        random_command_function_pmf |->
          MakeRandomCommandPmf(generator.arguments.terminal_probability)]
  /\ pc' = "gen_ready"
  /\ UNCHANGED <<island_vars, scan_vars, predictor_offspring, command>>

\* add_operator(operator_number)
AddOperator ==
  /\ pc = "gen_ready"
  /\ \E operator \in Operators :
       /\ \A i \in DOMAIN generator.operator_pmf :
            generator.operator_pmf[i].item # operator
       /\ generator' = [generator EXCEPT
                          !.operator_pmf = AddItem(generator.operator_pmf, operator)]
  /\ pc' = "gen_ready"
  /\ UNCHANGED <<island_vars, scan_vars, predictor_offspring, command>>

\* random_command(stack_location)
RandomCommand ==
  /\ pc = "gen_ready"
  /\ \E stack_location \in StackLocations :
       command' \in RandomCommandOutcomes(generator, stack_location)
  /\ pc' = "gen_ready"
  /\ UNCHANGED <<island_vars, scan_vars, predictor_offspring, generator>>

\* random_terminal_parameter(terminal_number) called on its own
CallRandomTerminalParameter ==
  /\ pc = "gen_ready"
  /\ \E terminal_number \in {0, 1} :
       command' \in
         IF RandomTerminalParameter(generator, terminal_number) = {}
         THEN {Raised("random_terminal_parameter", 0, "ValueError")}
         ELSE {Returned("random_terminal_parameter", 0, "terminal",
                        terminal_number, p, p) :
                 p \in RandomTerminalParameter(generator, terminal_number)}
  /\ pc' = "gen_ready"
  /\ UNCHANGED <<island_vars, scan_vars, predictor_offspring, generator>>

NextCommand ==
  \/ GeneratorRejected
  \/ GeneratorConstruct
  \/ AddOperator
  \/ RandomCommand
  \/ CallRandomTerminalParameter

SpecCommand == InitCommand /\ [][NextCommand]_vars

-----------------------------------------------------------------------------
(* Properties of the scheduler (specification Spec) *)

\* C1: at the moment the ratio-maintenance loop of a scheduler step exits,
\* point_eval_count / (point_eval_count + eval_count * predictor_size) is
\* defined and at least predictor_computation_ratio
C1_RatioAtLoopExit ==
  [][(pc = "ratio" /\ pc' \notin {"ratio", "error"}) =>
       /\ point_eval_count' + eval_count' * predictor_size' > 0
       /\ args.predictor_computation_ratio[1]
            * (point_eval_count' + eval_count' * predictor_size')
          <= point_eval_count' * args.predictor_computation_ratio[2]]_vars

\* a step left the loop after the island had stepped in it, with a positive target
C1_Witness ==
  /\ pc = "predictor"
  /\ predictor_age > 1
  /\ args.predictor_computation_ratio[1] > 0
  /\ args.predictor_computation_ratio[1]
       * (point_eval_count + eval_count * predictor_size)
     <= point_eval_count * args.predictor_computation_ratio[2]

\* C2: whenever the computation ratio is computed its denominator
\* point_eval_count + eval_count * predictor_size is not zero and the ratio r
\* satisfies 0 <= r < 1
C2_RatioDefined ==
  pc = "ratio" =>
    /\ point_eval_count + eval_count * predictor_size # 0
    /\ 0 <= point_eval_count
    /\ point_eval_count < point_eval_count + eval_count * predictor_size

\* C3: every iteration of the ratio-maintenance loop strictly increases
\* point_eval_count, so that the loop ends after finitely many iterations
C3_LoopProgress ==
  [][(pc = "ratio" /\ pc' = "ratio" /\ predictor_age' = predictor_age + 1) =>
       point_eval_count' > point_eval_count]_vars

\* C4: the predictor refresh happens exactly when the main age, read after
\* the step's increment, is a multiple of predictor_update_frequency: then a
\* best predictor's subset becomes the training data and the whole main
\* population is invalidated and evaluated again on it; in every other step
\* the training data, the population and eval_count are left alone by it
C4_PredictorRefresh ==
  [][/\ (pc = "predictor" /\ pc' # "predictor") =>
          IF generational_age % args.predictor_update_frequency = 0
          THEN /\ \E p \in DOMAIN predictor_population :
                    /\ \A q \in DOMAIN predictor_population :
                         predictor_population[p].fitness
                           <= predictor_population[q].fitness
                    /\ training_data' =
                         IndexData(full_training_data,
                                   predictor_population[p].values)
               /\ eval_count' = eval_count + Len(population)
               /\ Len(population') = Len(population)
               /\ \A i \in DOMAIN population :
                    /\ population'[i].genome = population[i].genome
                    /\ population'[i].fit_set
                    /\ population'[i].fitness = training_data'
          ELSE UNCHANGED <<training_data, population, eval_count>>
     /\ (pc \notin {"new", "predictor"}) => training_data' = training_data]_vars

\* a refresh happened in this step and adopted a proper subset
C4_Witness ==
  /\ pc = "trainer"
  /\ generational_age >= 1
  /\ generational_age % args.predictor_update_frequency = 0
  /\ Len(population) > 0
  /\ \A i \in DOMAIN population : population[i].fitness = training_data
  /\ training_data # full_training_data

\* C5: the trainer refresh happens exactly when the main age, read after the
\* step's increment, is a multiple of trainer_update_frequency: then exactly
\* one trainer, a copy of a main individual, is appended and every predictor
\* is invalidated and evaluated again; in every other step the trainer list
\* and the predictor island are left alone by it
C5_TrainerRefresh ==
  [][/\ (pc = "trainer" /\ pc' = "idle") =>
          IF generational_age % args.trainer_update_frequency = 0
          THEN /\ Len(trainers') = Len(trainers) + 1
               /\ SubSeq(trainers', 1, Len(trainers)) = trainers
               /\ \E i \in DOMAIN population :
                    trainers'[Len(trainers')] = CopyOf(population[i])
               /\ Len(predictor_population') = Len(predictor_population)
               /\ \A k \in DOMAIN predictor_population :
                    /\ predictor_population'[k].fit_set
                    /\ predictor_population'[k].values
                         = predictor_population[k].values
               /\ point_eval_count' = point_eval_count
                    + Len(population) * Len(predictor_population) * predictor_size
                    + Len(predictor_population) * predictor_size * Len(trainers')
          ELSE UNCHANGED <<trainers, predictor_population, point_eval_count>>
     /\ (pc \notin {"new", "trainer"}) => trainers' = trainers]_vars

\* a step ended with a trainer refresh
C5_Witness ==
  /\ pc = "idle"
  /\ generational_age >= 1
  /\ generational_age % args.trainer_update_frequency = 0
  /\ Len(trainers) = args.trainer_population_size + 1

\* C6: a scheduler step runs its phases in the order main generation, ratio
\* loop, predictor refresh, trainer refresh: each phase changes only what is
\* its own, the trainer refresh of a step in which both refreshes fire finds
\* the main population evaluated on the adopted subset, and the predictor
\* refresh reads the predictors before the trainer refresh invalidates them
C6_PhaseOrder ==
  [][/\ pc = "idle" => pc' = "ratio"
     /\ pc = "ratio" => pc' \in {"ratio", "predictor", "error"}
     /\ pc = "predictor" => pc' = "trainer"
     /\ pc = "trainer" => pc' \in {"idle", "error"}
     /\ generational_age' # generational_age => pc = "idle"
     /\ predictor_age' # predictor_age => pc \in {"new", "ratio"}
     /\ training_data' # training_data => pc \in {"new", "predictor"}
     /\ trainers' # trainers => pc \in {"new", "trainer"}
     /\ pc = "predictor" => UNCHANGED <<predictor_population, trainers>>
     /\ (/\ pc = "trainer"
         /\ generational_age % args.predictor_update_frequency = 0
         /\ generational_age % args.trainer_update_frequency = 0) =>
          \A i \in DOMAIN population :
            /\ population[i].fit_set
            /\ population[i].fitness = training_data]_vars

\* a step in which both refreshes fired has ended
C6_Witness ==
  /\ pc = "idle"
  /\ generational_age >= 1
  /\ generational_age % args.predictor_update_frequency = 0
  /\ generational_age % args.trainer_update_frequency = 0
  /\ Len(trainers) > args.trainer_population_size
  /\ Len(population) > 0
  /\ \A i \in DOMAIN population : population[i].fitness = training_data

\* C7: the ages are never negative and never decrease; the main age grows by
\* exactly one in every scheduler step and at no other time; the predictor
\* age becomes 1 at construction and grows by exactly one in every iteration
\* of the ratio loop and at no other time, refreshes included
C7_GenerationalAge ==
  [][/\ generational_age >= 0
     /\ predictor_age >= 0
     /\ pc = "idle" => generational_age' = generational_age + 1
     /\ pc # "idle" => generational_age' = generational_age
     /\ (pc = "new" /\ pc' = "idle") => predictor_age' = 1
     /\ (pc = "ratio" /\ pc' = "ratio") => predictor_age' = predictor_age + 1
     /\ ~(pc = "new" /\ pc' = "idle") /\ ~(pc = "ratio" /\ pc' = "ratio") =>
          predictor_age' = predictor_age]_vars

\* a trainer refresh and loop iterations have happened
C7_Witness ==
  /\ pc = "idle"
  /\ generational_age >= 2
  /\ predictor_age >= 2
  /\ Len(trainers) > args.trainer_population_size

\* the conditions under which construction has to fail
InvalidArguments(a) ==
  \/ a.population_size < 0
  \/ a.predictor_population_size < 0
  \/ a.predictor_update_frequency <= 0
  \/ a.predictor_size_ratio[1] <= 0
  \/ a.predictor_size_ratio[1] > a.predictor_size_ratio[2]
  \/ a.predictor_computation_ratio[1] < 0
  \/ a.predictor_computation_ratio[1] >= a.predictor_computation_ratio[2]
  \/ a.trainer_population_size < 0
  \/ a.trainer_update_frequency <= 0

\* C10: with an argument out of its range construction fails before a
\* population, a predictor island, a trainer or a swap of the training data
\* exists, and no argument is ever changed
C10_EagerValidation ==
  /\ [](InvalidArguments(args) =>
          /\ pc \in {"new", "rejected"}
          /\ population = <<>>
          /\ predictor_population = <<>>
          /\ trainers = <<>>
          /\ full_training_data = <<>>
          /\ training_data = SourceData(args.full_data_size)
          /\ generational_age = 0
          /\ predictor_age = 0
          /\ eval_count = 0
          /\ point_eval_count = 0)
  /\ [][args' = args]_vars

\* construction was refused
C10_Witness ==
  /\ pc = "rejected"
  /\ InvalidArguments(args)

-----------------------------------------------------------------------------
(* Properties of the new-trainer selection (specification SpecScan) *)

\* the variance of every individual of the scanned population
Variances == [i \in DOMAIN predictions |-> NpVar(predictions[i])]

\* C8: when every variance is defined the selected individual is the first,
\* in population order, whose variance is the maximum: no variance is
\* greater and every earlier one is strictly smaller; for the predictions
\* A -> {1,1,1}, B -> {0,5,10}, C -> {2,2,2} it is B
C8_FirstMaxVariance ==
  pc = "selected" =>
    /\ (\A i \in DOMAIN predictions : ~Variances[i].nan) =>
         /\ \A j \in DOMAIN predictions :
              Variances[j].val[1] * Variances[best_candidate].val[2]
                <= Variances[best_candidate].val[1] * Variances[j].val[2]
         /\ \A j \in 1..(best_candidate - 1) :
              Variances[j].val[1] * Variances[best_candidate].val[2]
                < Variances[best_candidate].val[1] * Variances[j].val[2]
    /\ predictions = ExamplePredictions => best_candidate = 2

\* a later individual ties with the selected one at a positive variance
C8_Witness ==
  /\ pc = "selected"
  /\ \A i \in DOMAIN predictions : ~Variances[i].nan
  /\ Variances[best_candidate].val[1] > 0
  /\ \E j \in DOMAIN predictions :
       /\ j > best_candidate
       /\ Variances[j] = Variances[best_candidate]

\* C9: an individual of undefined variance is selected only as population[0]
\* and only when no individual has a defined variance above 0; when every
\* variance is undefined population[0] is selected; a pass of the scan over
\* an undefined variance changes neither max_variance nor best_candidate;
\* the selection raises for an empty population only
C9_UndefinedVarianceNeverWins ==
  /\ [](pc = "selected" =>
          /\ Variances[best_candidate].nan =>
               /\ best_candidate = 1
               /\ \A j \in DOMAIN predictions :
                    Variances[j].nan \/ Variances[j].val[1] <= 0
          /\ (\A j \in DOMAIN predictions : Variances[j].nan) =>
               best_candidate = 1)
  /\ [](pc = "error" => Len(predictions) = 0)
  /\ [](pc \in {"scan", "selected"} => ~max_variance.nan)
  /\ [][(pc = "scan" /\ pc' = "scan" /\ Variances[scan_index + 1].nan) =>
          UNCHANGED <<max_variance, best_candidate>>]_vars

\* population[0] has an undefined variance and is selected although another
\* individual has a defined one
C9_Witness ==
  /\ pc = "selected"
  /\ Len(predictions) >= 2
  /\ Variances[best_candidate].nan
  /\ \E j \in DOMAIN predictions : ~Variances[j].nan

-----------------------------------------------------------------------------
(* Properties of the construction and of the captured data (specification Spec) *)

\* C11: successful construction leaves the predictor island at age 1 with
\* every predictor evaluated, and the training data of the main fitness
\* function has exactly predictor_size rows and is the captured data set
\* indexed, position by position, by the values of a best predictor
C11_AfterConstruction ==
  [][(pc = "new" /\ pc' = "idle") =>
       /\ predictor_age' = 1
       /\ Len(predictor_population') = args.predictor_population_size
       /\ \A k \in DOMAIN predictor_population' : predictor_population'[k].fit_set
       /\ Len(training_data') = predictor_size'
       /\ \E p \in DOMAIN predictor_population' :
            /\ \A q \in DOMAIN predictor_population' :
                 predictor_population'[p].fitness <= predictor_population'[q].fitness
            /\ Len(predictor_population'[p].values) = predictor_size'
            /\ \A k \in 1..predictor_size' :
                 training_data'[k] =
                   SourceData(args.full_data_size)[predictor_population'[p].values[k] + 1]]_vars

\* a scheduler was built whose best predictor is not its first one and names
\* rows other than the first predictor's
C11_Witness ==
  /\ pc = "idle"
  /\ generational_age = 0
  /\ predictor_size = 2
  /\ predictor_population[2].fitness < predictor_population[1].fitness
  /\ predictor_population[2].values # predictor_population[1].values
  /\ training_data = IndexData(full_training_data, predictor_population[2].values)

\* C12: in a built scheduler predictor_size is the floor of
\* predictor_size_ratio * full_data_size, lies in 0..full_data_size, is at
\* least 1 when full_data_size >= 1 / predictor_size_ratio, and never changes
C12_PredictorSize ==
  /\ [](pc \in {"idle", "ratio", "predictor", "trainer"} =>
          LET ratio == args.predictor_size_ratio
              full_data_size == Len(full_training_data)
          IN  /\ predictor_size * ratio[2] <= ratio[1] * full_data_size
              /\ ratio[1] * full_data_size < (predictor_size + 1) * ratio[2]
              /\ 0 <= predictor_size
              /\ predictor_size <= full_data_size
              /\ full_data_size * ratio[1] >= ratio[2] => predictor_size >= 1)
  /\ [][pc # "new" => predictor_size' = predictor_size]_vars

\* steps were taken with full_data_size = 1 / predictor_size_ratio
C12_Witness ==
  /\ pc = "idle"
  /\ generational_age >= 1
  /\ Len(full_training_data) * args.predictor_size_ratio[1]
       = args.predictor_size_ratio[2]
  /\ args.predictor_size_ratio[1] < args.predictor_size_ratio[2]
  /\ predictor_size = 1

\* what a trainer holds
TrainerContent(trainer) == <<trainer.genome, trainer.fit_set, trainer.fitness>>

\* C13: the trainer list only grows and no registered trainer is ever
\* removed, replaced, reordered or changed, whatever happens later to the
\* individual it was copied from; a trainer refresh appends the copy of a
\* main individual also when an equal trainer is already registered
C13_TrainersOnlyGrow ==
  [][/\ pc # "new" =>
          /\ Len(trainers') >= Len(trainers)
          /\ \A k \in DOMAIN trainers :
               TrainerContent(trainers'[k]) = TrainerContent(trainers[k])
     /\ (pc = "trainer" /\ pc' = "idle"
           /\ generational_age % args.trainer_update_frequency = 0) =>
          \E i \in DOMAIN population :
            /\ Len(trainers') = Len(trainers) + 1
            /\ TrainerContent(trainers'[Len(trainers')])
                 = <<population[i].genome, population[i].fit_set,
                     population[i].fitness>>]_vars

\* the same individual was registered twice and has left the population since
C13_Witness ==
  /\ pc = "idle"
  /\ Len(trainers) = 2
  /\ TrainerContent(trainers[1]) = TrainerContent(trainers[2])
  /\ \A i \in DOMAIN population :
       <<population[i].genome, population[i].fit_set, population[i].fitness>>
         # TrainerContent(trainers[2])

-----------------------------------------------------------------------------
(* Properties of deterministic crowding (specification SpecCrowd) *)

\* C14: in a predictor generation an offspring competes only with the parent
\* it was derived from: the population keeps its size, every place is held
\* afterwards by its parent or by that parent's offspring, an offspring of
\* worse fitness than its parent does not enter, and an offspring of equal
\* or better fitness always replaces its parent
C14_DeterministicCrowding ==
  [][(pc = "crowd" /\ pc' = "crowded") =>
       /\ Len(predictor_population') = Len(predictor_population)
       /\ \A i \in DOMAIN predictor_population :
            /\ predictor_population'[i]
                 \in {predictor_population[i], predictor_offspring[i]}
            /\ predictor_offspring[i].fitness > predictor_population[i].fitness
                 => predictor_population'[i] = predictor_population[i]
            /\ predictor_offspring[i].fitness <= predictor_population[i].fitness
                 => predictor_population'[i] = predictor_offspring[i]]_vars

\* a generation is over in which the first offspring lost to its parent,
\* though it is as good as the individual of the second place, and the
\* second offspring took the second place on equal fitness
C14_Witness ==
  /\ pc = "crowded"
  /\ Len(predictor_population) = 2
  /\ predictor_offspring[1].fitness > predictor_population[1].fitness
  /\ predictor_offspring[1].fitness = predictor_population[2].fitness
  /\ predictor_population[1] # predictor_offspring[1]
  /\ predictor_population[2] = predictor_offspring[2]
  /\ predictor_offspring[2].values # predictor_offspring[1].values
-----------------------------------------------------------------------------
(* The data of the scheduler (specification Spec) *)

\* C15: the captured full data set is never changed after construction: in
\* every built scheduler it is the data set the scheduler was constructed
\* on, no step of any phase alters it, and every index of every predictor
\* stays in [0, full_data_size)
C15_FullDataUntouched ==
  /\ [](pc \in {"idle", "ratio", "predictor", "trainer"} =>
          /\ full_training_data = SourceData(args.full_data_size)
          /\ \A p \in DOMAIN predictor_population :
               \A k \in DOMAIN predictor_population[p].values :
                 /\ 0 <= predictor_population[p].values[k]
                 /\ predictor_population[p].values[k] < Len(full_training_data))
  /\ [][pc # "new" => full_training_data' = full_training_data]_vars

\* after a predictor refresh and a trainer refresh the fitness function
\* works on the second row alone of a data set of two rows
C15_Witness ==
  /\ pc = "idle"
  /\ generational_age >= 2
  /\ generational_age % args.predictor_update_frequency = 0
  /\ Len(trainers) > args.trainer_population_size
  /\ Len(full_training_data) = 2
  /\ training_data = <<full_training_data[2]>>
-----------------------------------------------------------------------------
(* The cost of the new-trainer selection (specification SpecScan) *)

\* C16: computing the variances during the new-trainer selection changes
\* neither the trainer list, nor the cached fitness and validity flag of
\* any individual of the main population, nor the predictor population;
\* it changes point_eval_count alone, by predictor_size for every pair of
\* a predictor and an individual
C16_VarianceQueryIsPure ==
  /\ [][(pc = "select" \/ pc = "scan") =>
          /\ trainers' = trainers
          /\ population' = population
          /\ predictor_population' = predictor_population
          /\ eval_count' = eval_count
          /\ training_data' = training_data
          /\ point_eval_count' - point_eval_count
               = (scan_index' - scan_index) * Len(predictor_population)
                   * predictor_size]_vars
  /\ [](pc = "selected" =>
          point_eval_count
            = Len(population) * Len(predictor_population) * predictor_size)

\* a selection over two individuals and two predictors is over
C16_Witness ==
  /\ pc = "selected"
  /\ Len(population) = 2
  /\ Len(predictor_population) = 2
  /\ predictor_size = 1
  /\ Len(trainers) = 1
  /\ point_eval_count = 4
-----------------------------------------------------------------------------
(* Properties of the component generator (specification SpecCommand) *)

\* C17: random_command(stack_location) gives a terminal command for every
\* stack_location below num_initial_load_statements, and an operator
\* command only at a stack_location of at least one, with both parameters
\* in [0, stack_location)
C17_AcyclicCommands ==
  (command.call = "random_command" /\ command.raised = "none") =>
    /\ command.stack_location < generator.num_initial_load_statements
         => command.kind = "terminal" /\ command.node \in {0, 1}
    /\ command.kind = "operator" =>
         /\ command.stack_location >= 1
         /\ command.node \in Operators
         /\ 0 <= command.param1 /\ command.param1 < command.stack_location
         /\ 0 <= command.param2 /\ command.param2 < command.stack_location

\* an operator command at the first location after two loads, with the
\* largest and the smallest parameter it can have
C17_Witness ==
  /\ command.call = "random_command"
  /\ command.kind = "operator"
  /\ generator.num_initial_load_statements = 2
  /\ command.stack_location = 2
  /\ command.param1 = 1
  /\ command.param2 = 0
\* the arguments the constructor has to refuse, by what the claim says of
\* each of them
RefusedArguments(a) ==
  \/ ~IsInt(a.input_x_dimension)
  \/ FracLt(a.input_x_dimension.val, Zero)
  \/ ~IsInt(a.num_initial_load_statements)
  \/ FracLt(a.num_initial_load_statements.val, One)
  \/ \E probability \in {a.terminal_probability} \cup
                         ({a.constant_probability} \ {NoneValue}) :
       \/ ~IsNumber(probability)
       \/ FracLt(probability.val, Zero)
       \/ FracLt(One, probability.val)

\* the constructor raises TypeError or ValueError on the refused arguments
\* and on no others
ConstructorValidates ==
  /\ pc = "gen_rejected" =>
       /\ RefusedArguments(generator.arguments)
       /\ command.raised \in {"TypeError", "ValueError"}
  /\ pc = "gen_ready" => ~RefusedArguments(generator.arguments)

\* C20: the constructor raises TypeError or ValueError on a non-integer
\* or negative input_x_dimension, a non-integer or < 1
\* num_initial_load_statements and a non-numeric or out-of-[0,1]
\* probability; a generator it accepted, operators added, gives every
\* command it is asked for without an error, and random_terminal_parameter
\* returns -1 for terminal 1 and a value in [0, input_x_dimension) for
\* terminal 0
C20_GeneratesWithoutError ==
  /\ ConstructorValidates
  /\ (pc = "gen_ready" /\ Len(generator.operator_pmf) > 0
        /\ command.call \in {"random_command", "random_terminal_parameter"}) =>
       /\ command.raised = "none"
       /\ command.kind = "terminal" =>
            /\ command.node = 1 => command.param1 = -1 /\ command.param2 = -1
            /\ command.node = 0 =>
                 /\ 0 <= command.param1
                 /\ command.param1 < generator.input_x_dimension
                 /\ 0 <= command.param2
                 /\ command.param2 < generator.input_x_dimension
-----------------------------------------------------------------------------
(* The refreshes of the scheduler (specification Spec) *)

\* C18: the training data of the main fitness function is written only by
\* the construction and by a predictor refresh: no phase of a scheduler
\* step whose main age, once incremented, is not a multiple of
\* predictor_update_frequency changes it, whatever the predictor island
\* and the trainer refresh did
C18_TrainingDataWrittenOnRefresh ==
  [][(/\ pc # "new"
      /\ ~(pc = "predictor"
            /\ generational_age % args.predictor_update_frequency = 0)) =>
       training_data' = training_data]_vars

\* a step without a predictor refresh is over, in which the predictor
\* island advanced and a trainer was added, and the best predictor of the
\* island names another subset than the one in use
C18_Witness ==
  /\ pc = "idle"
  /\ generational_age >= 1
  /\ generational_age % args.predictor_update_frequency # 0
  /\ generational_age % args.trainer_update_frequency = 0
  /\ Len(trainers) > args.trainer_population_size
  /\ predictor_age >= 2
  /\ training_data \notin BestSubsets(predictor_population, full_training_data)
\* C19: after n completed scheduler steps on a scheduler with a non-empty
\* main population the number of registered trainers is the number seeded
\* at construction plus floor(n / trainer_update_frequency): every trainer
\* refresh adds exactly one trainer and nothing else changes the number
C19_TrainerCount ==
  /\ []((pc = "idle" /\ Len(population) > 0) =>
          Len(trainers) = args.trainer_population_size
                            + generational_age \div args.trainer_update_frequency)
  /\ [][(pc # "new" /\ Len(population) > 0) =>
          Len(trainers') =
            IF pc = "trainer" /\ generational_age % args.trainer_update_frequency = 0
            THEN Len(trainers) + 1
            ELSE Len(trainers)]_vars

\* three steps were completed on a scheduler that refreshes its trainers
\* every second step
C19_Witness ==
  /\ pc = "idle"
  /\ Len(population) > 0
  /\ generational_age = 3
  /\ args.trainer_update_frequency = 2
  /\ args.trainer_population_size = 1
  /\ Len(trainers) = 2
====
